---- MODULE Spec2Model ----
(***************************************************************************)
(* The scull pipe device of src/scullp/main.c: one struct scullp (a        *)
(* circular buffer with a read and a write position, guarded by a mutex,   *)
(* with one wait queue for readers and one for writers), the tasks that   *)
(* call its read, write and poll file operations, and the loading and      *)
(* unloading of the module that owns the NR_SCULLP_DEV devices.            *)
(***************************************************************************)
EXTENDS Integers, Sequences, FiniteSets, TLC

(* ------------------------------ bounds --------------------------------- *)
\* number of tasks that call the file operations concurrently
NProcs == 2
\* largest buffer_size the module is loaded with
MaxSize == 3
\* largest byte count a caller passes to read() or write()
MaxLen == 2
\* bytes are 0..MaxByte
MaxByte == 1

Procs == 1..NProcs
Bytes == 0..MaxByte

(* ----------------------------- constants ------------------------------- *)
EAGAIN == 11
EINTR == 4
EFAULT == 14
ERESTARTSYS == 512
POLLIN == 1
POLLOUT == 4
POLLRDNORM == 64
POLLWRNORM == 256
ENOMEM == 12
EEXIST == 17
NR_SCULLP_DEV == 4

(* ------------------------------- state --------------------------------- *)
VARIABLES
  size,        \* s->size
  buffer,      \* s->buffer, a function 0..size-1 -> Bytes
  readp,       \* s->readp
  writep,      \* s->writep
  lock,        \* s->lock: the task that holds the mutex, 0 when free
  inwq,        \* s->inwq: sequence of wait entries (readers, pollers)
  outwq,       \* s->outwq: sequence of wait entries (writers, pollers)
  dangling,    \* the queues that link an entry of a stack frame that is gone
  pc,          \* where each task is in its system call
  op,          \* the file operation each task is in
  f_flags,     \* f->f_flags & O_NONBLOCK of the call
  state,       \* the task state: "RUNNING" or "INTERRUPTIBLE"
  sigpending,  \* signal_pending(current)
  ret,         \* the value the call returned (read while pc = "done")
  len,         \* the len argument of the call, as the transfer step saw it
  ubuf,        \* the user buffer a read filled
  fifo,        \* observer: the bytes committed by writes and not yet read
  script,      \* the calls of a sequential test program (<<>> when none)
  step,        \* the script entry the test program is at
  acc,         \* the bytes the current script entry has transferred so far
  buffer_size, \* the module parameter buffer_size
  scullps,     \* scullps[1..NR_SCULLP_DEV-1]: buffer, size, readp, writep of
               \* the slots no task has a file on (size .. fifo are scullps[0])
  cdevs,       \* the slots whose character device is added (cdev_device_add)
  initpc,      \* where scullp_init() or scullp_exit() is
  loop_i,      \* i of scullp_init()
  loop_j,      \* j of scullp_init(), i of scullp_exit()
  err,         \* err of scullp_init()
  private_data \* f->private_data of each task's file: "NULL" or "scullp0"

chan == <<size, buffer, readp, writep>>
queues == <<inwq, outwq, dangling>>
driver == <<script, step, acc>>
module == <<buffer_size, scullps, cdevs, initpc, loop_i, loop_j, err>>
files == <<private_data>>
vars == <<size, buffer, readp, writep, lock, inwq, outwq, dangling, pc, op, f_flags,
          state, sigpending, ret, len, ubuf, fifo, script, step, acc,
          buffer_size, scullps, cdevs, initpc, loop_i, loop_j, err, private_data>>

Min(a, b) == IF a < b THEN a ELSE b

(* -------------------------- circular buffer ---------------------------- *)
\* how much data ready for read?
readable_size == (writep + size - readp) % size

\* mutant: the slot kept free to tell full from empty is forgotten
writable_size_nogap ==
  IF readp = writep THEN size
  ELSE (readp + size - writep) % size

\* how much space available for write?
writable_size ==
  IF readp = writep THEN size - 1
  ELSE ((readp + size - writep) % size) - 1

\* mutant: O_NONBLOCK is not looked at
wait_loop_blocking(avail, nonblock, signal) ==
  IF avail > 0 THEN "ready"
  ELSE IF signal THEN "EINTR"
  ELSE "sleep"

\* the loop that waits for the buffer to be ready: what one pass, made with
\* the mutex held, decides
wait_loop(avail, nonblock, signal) ==
  IF avail > 0 THEN "ready"
  ELSE IF nonblock THEN "EAGAIN"
  ELSE IF signal THEN "EINTR"
  ELSE "sleep"

\* mutant: the length the caller asked for is not looked at
read_len_all(count, avail) ==
  IF readp > writep THEN Min(avail, size - readp) ELSE avail

\* adjust the length of the buffer to read
read_len(count, avail) ==
  LET l == Min(count, avail)
  IN IF readp > writep THEN Min(l, size - readp) ELSE l

\* mutant: the length is not cut at the end of the buffer
write_len_nocap(count, avail) == Min(count, avail)

\* adjust the length of the buffer to write
write_len(count, avail) ==
  LET l == Min(count, avail)
  IN IF writep >= readp THEN Min(l, size - writep) ELSE l

\* mutant: the read position is not wrapped at the end of the buffer
read_advance_nowrap(n) == readp + n

\* adjust the read position
read_advance(n) == IF readp + n = size THEN 0 ELSE readp + n

\* mutant: the write position is not wrapped at the end of the buffer
write_advance_nowrap(n) == writep + n

\* update the write position
write_advance(n) == IF writep + n = size THEN 0 ELSE writep + n

\* mutant: the copy starts one byte after the read position
read_bytes_next(n) == [i \in 1..n |-> buffer[(readp + i) % size]]

\* the n bytes copy_to_user() takes from s->buffer + s->readp
read_bytes(n) == [i \in 1..n |-> buffer[readp + i - 1]]

\* mutant: the copy goes to the start of the buffer, not to the write position
write_bytes_at0(data, n, ngood) ==
  [i \in DOMAIN buffer |->
     IF i < n THEN (IF i < ngood THEN data[i + 1] ELSE 0) ELSE buffer[i]]

\* s->buffer after copy_from_user(s->buffer + s->writep, buf, n) with only
\* the first ngood bytes of buf accessible: the copied bytes, then zeroes
write_bytes(data, n, ngood) ==
  [i \in DOMAIN buffer |->
     IF i >= writep /\ i < writep + n
     THEN (IF i - writep < ngood THEN data[i - writep + 1] ELSE 0)
     ELSE buffer[i]]

(* ----------------------------- wait queues ----------------------------- *)
WaitEntry(p, x) == [task |-> p, kind |-> "wait", excl |-> x]
PollEntry(p) == [task |-> p, kind |-> "poll", excl |-> FALSE]

IsWait(e, p) == e.task = p /\ e.kind = "wait"
Queued(q, p) == \E i \in DOMAIN q : IsWait(q[i], p)

\* add_wait_queue(): a non-exclusive entry at the head
add_wait_queue(q, p) == <<WaitEntry(p, FALSE)>> \o q

\* prepare_to_wait_exclusive(): set the flag, queue at the tail if unqueued
prepare_to_wait_exclusive(q, p) ==
  IF Queued(q, p)
  THEN [i \in DOMAIN q |-> IF IsWait(q[i], p) THEN WaitEntry(p, TRUE) ELSE q[i]]
  ELSE Append(q, WaitEntry(p, TRUE))

RECURSIVE Without(_, _, _)
Without(q, p, k) ==
  IF q = <<>> THEN <<>>
  ELSE IF Head(q).task = p /\ Head(q).kind = k THEN Without(Tail(q), p, k)
  ELSE <<Head(q)>> \o Without(Tail(q), p, k)

\* finish_wait(): unlink the entry if it is still queued
finish_wait(q, p) == Without(q, p, "wait")

\* poll_wait(): the poll table's entry, non-exclusive, at the head
poll_wait(q, p) == <<PollEntry(p)>> \o q

\* poll_freewait() as the poll system call returns
poll_freewait(q, p) == Without(q, p, "poll")

\* mutant: the wakeup is lost, the task stays asleep
Wake_lost(st, t) == st

\* try_to_wake_up(): the task is runnable again
Wake(st, t) == [st EXCEPT ![t] = "RUNNING"]

\* __wake_up_common(q, TASK_INTERRUPTIBLE, 1): walk the entries in order.
\* An autoremove entry whose task sleeps is woken and unlinked, and the walk
\* stops after the first exclusive one woken; a poll entry stays queued.
\* When the list links a dangling entry (bad) the walk is undefined: it may
\* also end before any entry.  The result is the set of possible outcomes
\* (queue, task states).
RECURSIVE wake_walk(_, _, _, _)
wake_walk(kept, rest, st, bad) ==
  IF rest = <<>> THEN {[q |-> kept, st |-> st]}
  ELSE LET e == Head(rest)
           t == e.task
           go == IF e.kind = "poll"
                 THEN wake_walk(Append(kept, e), Tail(rest),
                                IF st[t] = "INTERRUPTIBLE" THEN Wake(st, t) ELSE st,
                                bad)
                 ELSE IF st[t] = "INTERRUPTIBLE"
                 THEN (IF e.excl
                       THEN {[q |-> kept \o Tail(rest), st |-> Wake(st, t)]}
                       ELSE wake_walk(kept, Tail(rest), Wake(st, t), bad))
                 ELSE wake_walk(Append(kept, e), Tail(rest), st, bad)
       IN IF bad THEN go \cup {[q |-> kept \o rest, st |-> st]} ELSE go

wake_up_interruptible(q, st, bad) == wake_walk(<<>>, q, st, bad)

(* ------------------------------- poll ---------------------------------- *)
\* mutant: the tests are >= 0, which always holds
poll_mask_always == POLLIN + POLLRDNORM + POLLOUT + POLLWRNORM

\* ret |= POLLIN|POLLRDNORM, ret |= POLLOUT|POLLWRNORM
poll_mask ==
  (IF readable_size > 0 THEN POLLIN + POLLRDNORM ELSE 0)
  + (IF writable_size > 0 THEN POLLOUT + POLLWRNORM ELSE 0)

\* mask & bit for a single-bit value; on the two's complement bits of a
\* negative mask too (\div rounds down), which is how -ERESTARTSYS reads
\* once scullp_poll() has returned it as a __poll_t
HasBit(mask, bit) == (mask \div bit) % 2 = 1

(* ------------------------------- Init ---------------------------------- *)
\* scullp_initialize(): the buffer is kzalloc'ed, the positions zeroed,
\* the queues and the mutex initialised; no task is in a call
InitChannel(sz) ==
  /\ size = sz
  /\ buffer = [i \in 0..(sz - 1) |-> 0]
  /\ readp = 0
  /\ writep = 0
  /\ lock = 0
  /\ inwq = <<>>
  /\ outwq = <<>>
  /\ dangling = {}
  /\ pc = [p \in Procs |-> "idle"]
  /\ op = [p \in Procs |-> "none"]
  /\ f_flags = [p \in Procs |-> FALSE]
  /\ state = [p \in Procs |-> "RUNNING"]
  /\ sigpending = [p \in Procs |-> FALSE]
  /\ ret = [p \in Procs |-> 0]
  /\ len = [p \in Procs |-> 0]
  /\ ubuf = [p \in Procs |-> <<>>]
  /\ fifo = <<>>

Slots == 0..(NR_SCULLP_DEV - 1)

\* a slot of the static array scullps[] before scullp_initialize()
Zeroed == [buffer |-> "NULL", size |-> 0, readp |-> 0, writep |-> 0]
\* ... and once scullp_initialize() has returned 0
Initialized(sz) == [buffer |-> "kzalloc", size |-> sz, readp |-> 0, writep |-> 0]

\* scullp_init() has returned 0: the module is loaded with buffer_size sz
Loaded(sz) ==
  /\ buffer_size = sz
  /\ scullps = [k \in Slots \ {0} |-> Initialized(sz)]
  /\ cdevs = Slots
  /\ initpc = "live"
  /\ loop_i = NR_SCULLP_DEV
  /\ loop_j = 0
  /\ err = 0

\* every task has opened /dev/scullp0
Opened == private_data = [p \in Procs |-> "scullp0"]

Init ==
  /\ \E sz \in 2..MaxSize : InitChannel(sz) /\ Loaded(sz)
  /\ Opened
  /\ script = <<>>
  /\ step = 1
  /\ acc = <<>>

(* ------------------------------ actions -------------------------------- *)
\* the call returns r: the task is on its way back to user space, where a
\* pending signal is delivered
Returns(p, r) ==
  /\ pc' = [pc EXCEPT ![p] = "done"]
  /\ ret' = [ret EXCEPT ![p] = r]
  /\ sigpending' = [sigpending EXCEPT ![p] = FALSE]
  /\ f_flags' = [f_flags EXCEPT ![p] = FALSE]

\* mutant: the mutex is taken although another task holds it
Enter_nolock(p, o, nb) ==
  /\ pc[p] = "idle"
  /\ private_data[p] # "NULL"
  /\ lock' = p
  /\ pc' = [pc EXCEPT ![p] = "locked"]
  /\ op' = [op EXCEPT ![p] = o]
  /\ f_flags' = [f_flags EXCEPT ![p] = nb]
  /\ UNCHANGED <<chan, queues, state, sigpending, ret, len, ubuf, fifo>>

\* a task calls read(), write() or poll() on the open file, with or without
\* O_NONBLOCK, and mutex_lock_interruptible() returns 0
Enter(p, o, nb) ==
  /\ pc[p] = "idle"
  /\ private_data[p] # "NULL"
  /\ lock = 0
  /\ lock' = p
  /\ pc' = [pc EXCEPT ![p] = "locked"]
  /\ op' = [op EXCEPT ![p] = o]
  /\ f_flags' = [f_flags EXCEPT ![p] = nb]
  /\ UNCHANGED <<chan, queues, state, sigpending, ret, len, ubuf, fifo>>

\* the same, but the mutex is held and a signal reaches the task while it
\* waits for it: mutex_lock_interruptible() fails and the call returns
EnterInterrupted(p, o) ==
  /\ pc[p] = "idle"
  /\ private_data[p] # "NULL"
  /\ lock # 0
  /\ op' = [op EXCEPT ![p] = o]
  /\ Returns(p, -ERESTARTSYS)
  /\ UNCHANGED <<chan, lock, queues, state, len, ubuf, fifo>>

\* schedule() returns once the task is runnable again, and
\* mutex_lock_interruptible() returns 0
Resume(p) ==
  /\ pc[p] = "sched"
  /\ state[p] = "RUNNING"
  /\ lock = 0
  /\ lock' = p
  /\ pc' = [pc EXCEPT ![p] = "relocked"]
  /\ UNCHANGED <<chan, queues, op, f_flags, state, sigpending, ret, len, ubuf,
                 fifo, driver,
                 module, files>>

\* mutant: the failed mutex_lock_interruptible() leaves through the out
\* label, which unlocks the mutex
ResumeInterrupted_unlock(p) ==
  /\ pc[p] = "sched"
  /\ state[p] = "RUNNING"
  /\ lock # 0
  /\ sigpending[p]
  /\ Returns(p, -ERESTARTSYS)
  /\ lock' = 0
  /\ UNCHANGED <<chan, queues, op, state, len, ubuf, fifo, driver, module, files>>

\* schedule() returns, the mutex is held and a signal is pending:
\* mutex_lock_interruptible() fails and the call returns -ERESTARTSYS at
\* once, without finish_wait()
ResumeInterrupted(p) ==
  /\ pc[p] = "sched"
  /\ state[p] = "RUNNING"
  /\ lock # 0
  /\ sigpending[p]
  /\ Returns(p, -ERESTARTSYS)
  /\ UNCHANGED <<chan, lock, queues, op, state, len, ubuf, fifo, driver,
                 module, files>>

\* scullp_read() from the mutex taken to the mutex released
scullp_read(p, count, ngood) ==
  /\ pc[p] \in {"locked", "relocked"}
  /\ op[p] = "read"
  /\ LET q0 == IF pc[p] = "locked" THEN add_wait_queue(inwq, p) ELSE inwq
         avail == readable_size
         q1 == prepare_to_wait_exclusive(q0, p)
         n == read_len(count, avail)
         way == wait_loop(avail, f_flags[p], sigpending[p])
     IN IF way = "sleep"
        THEN \* mutex_unlock(); schedule();
             /\ inwq' = q1
             /\ state' = [state EXCEPT ![p] = "INTERRUPTIBLE"]
             /\ pc' = [pc EXCEPT ![p] = "sched"]
             /\ UNCHANGED <<chan, outwq, f_flags, sigpending, ret, len, ubuf, fifo>>
        ELSE IF way # "ready"
        THEN \* break with -EAGAIN or -EINTR
             /\ inwq' = finish_wait(q1, p)
             /\ Returns(p, IF way = "EAGAIN" THEN -EAGAIN ELSE -EINTR)
             /\ UNCHANGED <<chan, outwq, state, len, ubuf, fifo>>
        ELSE IF ngood < n
        THEN \* copy_to_user() fails
             /\ inwq' = finish_wait(q0, p)
             /\ Returns(p, -EFAULT)
             /\ UNCHANGED <<chan, outwq, state, len, ubuf, fifo>>
        ELSE /\ inwq' = finish_wait(q0, p)
             /\ ubuf' = [ubuf EXCEPT ![p] = read_bytes(n)]
             /\ readp' = read_advance(n)
             /\ Returns(p, n)
             /\ len' = [len EXCEPT ![p] = count]
             /\ fifo' = SubSeq(fifo, n + 1, Len(fifo))
             /\ \E w \in wake_up_interruptible(outwq, state, "outwq" \in dangling) :
                  outwq' = w.q /\ state' = w.st
             /\ UNCHANGED <<size, buffer, writep>>
  /\ lock' = 0
  /\ UNCHANGED <<op, dangling>>

\* scullp_write() from the mutex taken to the mutex released
scullp_write(p, data, ngood) ==
  /\ pc[p] \in {"locked", "relocked"}
  /\ op[p] = "write"
  /\ LET q0 == IF pc[p] = "locked" THEN add_wait_queue(outwq, p) ELSE outwq
         avail == writable_size
         q1 == prepare_to_wait_exclusive(q0, p)
         n == write_len(Len(data), avail)
         way == wait_loop(avail, f_flags[p], sigpending[p])
     IN IF way = "sleep"
        THEN /\ outwq' = q1
             /\ state' = [state EXCEPT ![p] = "INTERRUPTIBLE"]
             /\ pc' = [pc EXCEPT ![p] = "sched"]
             /\ UNCHANGED <<chan, inwq, f_flags, sigpending, ret, len, fifo>>
        ELSE IF way # "ready"
        THEN /\ outwq' = finish_wait(q1, p)
             /\ Returns(p, IF way = "EAGAIN" THEN -EAGAIN ELSE -EINTR)
             /\ UNCHANGED <<chan, inwq, state, len, fifo>>
        ELSE IF ngood < n
        THEN \* copy_from_user() fails
             /\ outwq' = finish_wait(q0, p)
             /\ buffer' = write_bytes(data, n, ngood)
             /\ Returns(p, -EFAULT)
             /\ UNCHANGED <<size, readp, writep, inwq, state, len, fifo>>
        ELSE /\ outwq' = finish_wait(q0, p)
             /\ buffer' = write_bytes(data, n, ngood)
             /\ writep' = write_advance(n)
             /\ Returns(p, n)
             /\ len' = [len EXCEPT ![p] = Len(data)]
             /\ fifo' = fifo \o SubSeq(data, 1, n)
             /\ \E w \in wake_up_interruptible(inwq, state, "inwq" \in dangling) :
                  inwq' = w.q /\ state' = w.st
             /\ UNCHANGED <<size, readp>>
  /\ lock' = 0
  /\ UNCHANGED <<op, ubuf, dangling>>

\* scullp_poll() from the mutex taken to the mutex released
scullp_poll(p) ==
  /\ pc[p] = "locked"
  /\ op[p] = "poll"
  /\ inwq' = poll_wait(inwq, p)
  /\ outwq' = poll_wait(outwq, p)
  /\ Returns(p, poll_mask)
  /\ lock' = 0
  /\ UNCHANGED <<chan, dangling, op, state, len, ubuf, fifo, driver,
                 module, files>>

\* a signal is sent to a task that is inside read() or write()
Signal(p) ==
  /\ pc[p] \in {"locked", "relocked", "sched"}
  /\ ~sigpending[p]
  /\ sigpending' = [sigpending EXCEPT ![p] = TRUE]
  /\ state' = Wake(state, p)
  /\ UNCHANGED <<chan, lock, queues, pc, op, f_flags, ret, len, ubuf, fifo, driver,
                 module, files>>

\* what is left of queue q, named w, once the task is back in user space:
\* the poll table is freed, and a wait entry the call left linked dangles
left_queue(q, p) == finish_wait(poll_freewait(q, p), p)

left_dangling(p) ==
  dangling \cup (IF Queued(inwq, p) THEN {"inwq"} ELSE {})
           \cup (IF Queued(outwq, p) THEN {"outwq"} ELSE {})

\* the system call is back in user space: its stack frame is gone
Leave(p) ==
  /\ pc[p] = "done"
  /\ pc' = [pc EXCEPT ![p] = "idle"]
  /\ op' = [op EXCEPT ![p] = "none"]
  /\ ret' = [ret EXCEPT ![p] = 0]
  /\ len' = [len EXCEPT ![p] = 0]
  /\ ubuf' = [ubuf EXCEPT ![p] = <<>>]
  /\ inwq' = left_queue(inwq, p)
  /\ outwq' = left_queue(outwq, p)
  /\ dangling' = left_dangling(p)
  /\ UNCHANGED <<chan, lock, state, f_flags, sigpending, fifo>>

Call(p) ==
  /\ \E o \in {"read", "write"}, nb \in BOOLEAN : Enter(p, o, nb)
  /\ UNCHANGED <<driver, module, files>>

CallPoll(p) == Enter(p, "poll", FALSE) /\ UNCHANGED <<driver, module, files>>

CallInterrupted(p) ==
  /\ \E o \in {"read", "write", "poll"} : EnterInterrupted(p, o)
  /\ UNCHANGED <<driver, module, files>>

Read(p) ==
  /\ \E count \in 0..MaxLen, ngood \in 0..MaxLen : scullp_read(p, count, ngood)
  /\ UNCHANGED <<driver, module, files>>

Write(p) ==
  /\ \E count \in 0..MaxLen :
       \E data \in [1..count -> Bytes], ngood \in 0..count :
         scullp_write(p, data, ngood)
  /\ UNCHANGED <<driver, module, files>>

Return(p) == Leave(p) /\ UNCHANGED <<driver, module, files>>

Next ==
  \E p \in Procs :
    \/ Call(p)
    \/ CallPoll(p)
    \/ CallInterrupted(p)
    \/ Read(p)
    \/ Write(p)
    \/ scullp_poll(p)
    \/ Resume(p)
    \/ ResumeInterrupted(p)
    \/ Signal(p)
    \/ Return(p)

Spec == Init /\ [][Next]_vars

(* ---------------------- sequential test programs ----------------------- *)
\* One task runs the calls of `script` in order.  An entry is one call, or,
\* with all = TRUE, the usual loop around a short read() or write(): the call
\* is repeated for the rest until every byte of the entry is transferred.
\* Every user buffer is accessible.
W(data, nb, all, tag) ==
  [op |-> "write", nonblock |-> nb, data |-> data, len |-> Len(data),
   all |-> all, tag |-> tag]
R(n, nb, all, tag) ==
  [op |-> "read", nonblock |-> nb, data |-> <<>>, len |-> n,
   all |-> all, tag |-> tag]

Running == step \in DOMAIN script
Entry == script[step]
\* what the current entry still has to transfer
Rest == SubSeq(Entry.data, Len(acc) + 1, Entry.len)
Zeros(n) == [i \in 1..n |-> 0]

ScriptEnter(p) ==
  /\ Running
  /\ Enter(p, Entry.op, Entry.nonblock)
  /\ UNCHANGED <<driver, module, files>>

ScriptRead(p) ==
  /\ Running
  /\ scullp_read(p, Entry.len - Len(acc), Entry.len - Len(acc))
  /\ UNCHANGED <<driver, module, files>>

ScriptWrite(p) ==
  /\ Running
  /\ scullp_write(p, Rest, Len(Rest))
  /\ UNCHANGED <<driver, module, files>>

\* the bytes the call that just returned has transferred
Moved(p) ==
  IF ret[p] < 0 THEN <<>>
  ELSE IF op[p] = "read" THEN ubuf[p]
  ELSE SubSeq(Rest, 1, ret[p])

ScriptLeave(p) ==
  /\ Running
  /\ Leave(p)
  /\ script' = script
  /\ UNCHANGED <<module, files>>
  /\ IF Entry.all /\ ret[p] >= 0 /\ Len(acc) + Len(Moved(p)) < Entry.len
     THEN acc' = acc \o Moved(p) /\ step' = step
     ELSE acc' = <<>> /\ step' = step + 1

ScriptNext ==
  \/ ScriptEnter(1)
  \/ ScriptRead(1)
  \/ ScriptWrite(1)
  \/ ScriptLeave(1)

ScriptInit(sz, scr) ==
  /\ InitChannel(sz)
  /\ Loaded(sz)
  /\ Opened
  /\ script = scr
  /\ step = 1
  /\ acc = <<>>

\* move both positions of the empty buffer to offset c: write c bytes, read
\* them back
Prelude(c) ==
  IF c = 0 THEN <<>>
  ELSE <<W(Zeros(c), FALSE, TRUE, "pre"), R(c, FALSE, TRUE, "pre")>>

Payloads(n) == UNION {[1..k -> Bytes] : k \in 1..n}

\* Round trips: from offset c, write P1 and then P2 (when not empty), each by
\* one call or by the loop, then read Len(P1) + Len(P2) bytes by one call or
\* by the loop.
RoundTrips(sz) ==
  {Prelude(c) \o <<W(P1, FALSE, wall, "payload")>>
              \o (IF P2 = <<>> THEN <<>> ELSE <<W(P2, FALSE, wall, "payload")>>)
              \o <<R(Len(P1) + Len(P2), FALSE, rall, "check")>> :
     c \in 0..(sz - 1), P1 \in Payloads(sz - 1),
     P2 \in {<<>>} \cup Payloads(sz - 2), wall \in BOOLEAN, rall \in BOOLEAN}

SeqInit ==
  \E sz \in 3..(MaxSize + 1) :
    \E scr \in {t \in RoundTrips(sz) :
                  \A i \in DOMAIN t : t[i].len <= sz - 1} :
      ScriptInit(sz, scr)

SpecSeq == SeqInit /\ [][ScriptNext]_vars

\* Scenario A: buffer_size 8; write 7 bytes, write 1 byte with O_NONBLOCK,
\* read 7 bytes, write the 7 bytes again
ScenarioA ==
  {<<W(P, FALSE, FALSE, "first"), W(<<b>>, TRUE, FALSE, "full"),
     R(7, FALSE, FALSE, "drain"), W(P, FALSE, FALSE, "again")>> :
     P \in [1..7 -> Bytes], b \in Bytes}

InitA == \E scr \in ScenarioA : ScriptInit(8, scr)

SpecA == InitA /\ [][ScriptNext]_vars

\* Scenario B: buffer_size 8; bring readp to 6 and writep to 2 with four
\* bytes stored at 6, 7, 0, 1; then read 5 bytes, then read the remainder
ScenarioB ==
  {Prelude(6) \o <<W(P, FALSE, TRUE, "payload"),
                   R(5, FALSE, FALSE, "first"), R(3, FALSE, FALSE, "second")>> :
     P \in [1..4 -> Bytes]}

InitB == \E scr \in ScenarioB : ScriptInit(8, scr)

SpecB == InitB /\ [][ScriptNext]_vars

(* --------------------- module load, unload and files ------------------- *)
\* The module is loaded and unloaded while tasks open /dev/scullp0, call its
\* file operations and close it.  size .. outwq are scullps[0]; scullps holds
\* the other slots.

\* the slot holds a buffer that kzalloc() returned and kfree() has not freed
Allocated(k) == IF k = 0 THEN buffer # <<>> ELSE scullps[k].buffer # "NULL"

\* scullp_initialize() of slot k; ok: kzalloc() returns a buffer
scullp_initialize(k, ok) ==
  IF k = 0
  THEN /\ size' = buffer_size
       /\ buffer' = IF ok THEN [x \in 0..(buffer_size - 1) |-> 0] ELSE <<>>
       /\ readp' = (IF ok THEN 0 ELSE readp)
       /\ writep' = (IF ok THEN 0 ELSE writep)
       /\ inwq' = <<>>
       /\ outwq' = <<>>
       /\ lock' = 0
       /\ UNCHANGED <<scullps, dangling, fifo>>
  ELSE /\ scullps' = [scullps EXCEPT ![k] =
                        IF ok THEN Initialized(buffer_size)
                        ELSE [@ EXCEPT !.size = buffer_size]]
       /\ UNCHANGED <<chan, lock, queues, fifo>>

\* scullp_terminate() of slot k: the device is deleted, the buffer freed,
\* the positions and the size zeroed; the mutex is not taken
scullp_terminate(k) ==
  /\ cdevs' = cdevs \ {k}
  /\ IF k = 0
     THEN /\ buffer' = <<>>
          /\ size' = 0
          /\ readp' = 0
          /\ writep' = 0
          /\ fifo' = <<>>
          /\ UNCHANGED scullps
     ELSE /\ scullps' = [scullps EXCEPT ![k] = Zeroed]
          /\ UNCHANGED <<chan, fifo>>
  /\ UNCHANGED <<lock, queues>>

\* the tasks and their files are left alone
ModuleFrame ==
  UNCHANGED <<pc, op, f_flags, state, sigpending, ret, len, ubuf, driver, files,
              buffer_size>>

\* scullp_init(): one step of the loop that registers the devices, or of the
\* loop that unregisters them after a failure
scullp_init ==
  /\ ModuleFrame
  /\ \/ /\ initpc = "scullp_initialize"
        /\ loop_i < NR_SCULLP_DEV
        /\ \E ok \in BOOLEAN :
             /\ scullp_initialize(loop_i, ok)
             /\ IF ok
                THEN initpc' = "cdev_device_add" /\ UNCHANGED <<err, loop_j>>
                ELSE initpc' = "unregister" /\ err' = -ENOMEM /\ loop_j' = 0
        /\ UNCHANGED <<cdevs, loop_i>>
     \/ /\ initpc = "scullp_initialize"
        /\ loop_i = NR_SCULLP_DEV
        /\ initpc' = "live"
        /\ UNCHANGED <<chan, lock, queues, fifo, scullps, cdevs, loop_i, loop_j, err>>
     \/ /\ initpc = "cdev_device_add"
        /\ \/ /\ cdevs' = cdevs \cup {loop_i}
              /\ loop_i' = loop_i + 1
              /\ initpc' = "scullp_initialize"
              /\ UNCHANGED <<err, loop_j>>
           \/ /\ \E e \in {ENOMEM, EEXIST} : err' = -e
              /\ initpc' = "unregister"
              /\ loop_j' = 0
              /\ UNCHANGED <<cdevs, loop_i>>
        /\ UNCHANGED <<chan, lock, queues, fifo, scullps>>
     \/ /\ initpc = "unregister"
        /\ IF loop_j < loop_i
           THEN /\ scullp_terminate(loop_j)
                /\ loop_j' = loop_j + 1
                /\ UNCHANGED initpc
           ELSE /\ initpc' = "failed"
                /\ UNCHANGED <<chan, lock, queues, fifo, scullps, cdevs, loop_j>>
        /\ UNCHANGED <<loop_i, err>>

\* scullp_exit(), which runs once no file of the module is open: one step of
\* its loop
scullp_exit ==
  /\ ModuleFrame
  /\ \/ /\ initpc = "live"
        /\ \A p \in Procs : private_data[p] = "NULL"
        /\ initpc' = "scullp_exit"
        /\ loop_j' = 0
        /\ UNCHANGED <<chan, lock, queues, fifo, scullps, cdevs>>
     \/ /\ initpc = "scullp_exit"
        /\ IF loop_j < NR_SCULLP_DEV
           THEN /\ scullp_terminate(loop_j)
                /\ loop_j' = loop_j + 1
                /\ UNCHANGED initpc
           ELSE /\ initpc' = "gone"
                /\ UNCHANGED <<chan, lock, queues, fifo, scullps, cdevs, loop_j>>
  /\ UNCHANGED <<loop_i, err>>

\* mutant: the buffer is set up anew by every open, as the early variant of
\* the driver did
scullp_open_reset(p) ==
  /\ pc[p] = "idle"
  /\ private_data[p] = "NULL"
  /\ 0 \in cdevs
  /\ private_data' = [private_data EXCEPT ![p] = "scullp0"]
  /\ readp' = 0
  /\ writep' = 0
  /\ UNCHANGED <<size, buffer, lock, queues, pc, op, f_flags, state, sigpending,
                 ret, len, ubuf, fifo, driver, module>>

\* scullp_open() of /dev/scullp0, which chrdev_open() calls while the
\* character device is added
scullp_open(p) ==
  /\ pc[p] = "idle"
  /\ private_data[p] = "NULL"
  /\ 0 \in cdevs
  /\ private_data' = [private_data EXCEPT ![p] = "scullp0"]
  /\ UNCHANGED <<chan, lock, queues, pc, op, f_flags, state, sigpending, ret,
                 len, ubuf, fifo, driver, module>>

\* scullp_release(), as the task closes its file
scullp_release(p) ==
  /\ pc[p] = "idle"
  /\ private_data[p] # "NULL"
  /\ private_data' = [private_data EXCEPT ![p] = "NULL"]
  /\ UNCHANGED <<chan, lock, queues, pc, op, f_flags, state, sigpending, ret,
                 len, ubuf, fifo, driver, module>>

\* A file operation that holds the mutex of a terminated slot: s->size is 0
\* and readable_size() divides by it, which is undefined.  Either the
\* division traps and the task dies in the kernel with the mutex held, or it
\* does not trap and yields the dividend: readable_size() is 0 and
\* writable_size() is (size_t)-1, so that a read waits, a write transfers 0
\* bytes and a poll reports the device writable.
DivideError(p) ==
  /\ pc[p] \in {"locked", "relocked"}
  /\ size = 0
  /\ \/ /\ pc' = [pc EXCEPT ![p] = "oops"]
        /\ UNCHANGED <<lock, inwq, outwq, f_flags, state, sigpending, ret>>
     \/ /\ op[p] = "read"
        /\ LET q0 == IF pc[p] = "locked" THEN add_wait_queue(inwq, p) ELSE inwq
               q1 == prepare_to_wait_exclusive(q0, p)
               way == wait_loop(0, f_flags[p], sigpending[p])
           IN IF way = "sleep"
              THEN /\ inwq' = q1
                   /\ state' = [state EXCEPT ![p] = "INTERRUPTIBLE"]
                   /\ pc' = [pc EXCEPT ![p] = "sched"]
                   /\ UNCHANGED <<f_flags, sigpending, ret>>
              ELSE /\ inwq' = finish_wait(q1, p)
                   /\ Returns(p, IF way = "EAGAIN" THEN -EAGAIN ELSE -EINTR)
                   /\ UNCHANGED state
        /\ lock' = 0
        /\ UNCHANGED outwq
     \/ /\ op[p] = "write"
        /\ outwq' = finish_wait(outwq, p)
        /\ Returns(p, 0)
        /\ \E w \in wake_up_interruptible(inwq, state, "inwq" \in dangling) :
             inwq' = w.q /\ state' = w.st
        /\ lock' = 0
     \/ /\ op[p] = "poll"
        /\ inwq' = poll_wait(inwq, p)
        /\ outwq' = poll_wait(outwq, p)
        /\ Returns(p, POLLOUT + POLLWRNORM)
        /\ lock' = 0
        /\ UNCHANGED state
  /\ UNCHANGED <<chan, dangling, op, len, ubuf, fifo, driver, module, files>>

\* what a task does with the file of an initialised slot
FileNext(p) ==
  \/ Call(p)
  \/ CallPoll(p)
  \/ size > 0 /\ Read(p)
  \/ size > 0 /\ Write(p)
  \/ size > 0 /\ scullp_poll(p)
  \/ Resume(p)
  \/ Return(p)

PoolInit ==
  /\ InitChannel(0)
  /\ \E sz \in 2..MaxSize : buffer_size = sz
  /\ scullps = [k \in Slots \ {0} |-> Zeroed]
  /\ cdevs = {}
  /\ initpc = "scullp_initialize"
  /\ loop_i = 0
  /\ loop_j = 0
  /\ err = 0
  /\ private_data = [p \in Procs |-> "NULL"]
  /\ script = <<>>
  /\ step = 1
  /\ acc = <<>>

\* one task uses /dev/scullp0 while the module is loaded and unloaded
PoolNext ==
  \/ scullp_init
  \/ scullp_exit
  \/ scullp_open(1)
  \/ scullp_release(1)
  \/ FileNext(1)
  \/ Signal(1)
  \/ DivideError(1)

SpecPool == PoolInit /\ [][PoolNext]_vars

\* the module is loaded and no task has opened the device yet
FilesInit ==
  /\ \E sz \in 2..MaxSize : InitChannel(sz) /\ Loaded(sz)
  /\ private_data = [p \in Procs |-> "NULL"]
  /\ script = <<>>
  /\ step = 1
  /\ acc = <<>>

\* the tasks open the device, use it and close it
FilesNext ==
  \E p \in Procs :
    \/ scullp_open(p)
    \/ scullp_release(p)
    \/ FileNext(p)

SpecFiles == FilesInit /\ [][FilesNext]_vars

(* ------------------------ producer and consumer ------------------------ *)
\* Task 1 reads and task 2 writes, both blocking, both with accessible user
\* buffers of at least one byte; no signal is sent.  A task may stop calling,
\* but a call that can go on does: the scheduler runs a runnable task, and
\* the mutex is handed to a task that keeps waiting for it.
PairInit ==
  /\ \E sz \in 2..MaxSize : InitChannel(sz) /\ Loaded(sz)
  /\ Opened
  /\ script = <<>>
  /\ step = 1
  /\ acc = <<>>

PairCall ==
  /\ Enter(1, "read", FALSE) \/ Enter(2, "write", FALSE)
  /\ UNCHANGED <<driver, module, files>>

PairRead ==
  /\ \E count \in 1..MaxLen : scullp_read(1, count, count)
  /\ UNCHANGED <<driver, module, files>>

PairWrite ==
  /\ \E count \in 1..MaxLen :
       \E data \in [1..count -> Bytes] : scullp_write(2, data, count)
  /\ UNCHANGED <<driver, module, files>>

PairNext ==
  \/ PairCall
  \/ PairRead
  \/ PairWrite
  \/ \E p \in {1, 2} : Resume(p)
  \/ \E p \in {1, 2} : Return(p)

SpecPair ==
  /\ PairInit
  /\ [][PairNext]_vars
  /\ WF_vars(PairRead)
  /\ WF_vars(PairWrite)
  /\ \A p \in {1, 2} : SF_vars(Resume(p)) /\ WF_vars(Return(p))

(* --------------------------- several readers --------------------------- *)
\* NProcs tasks read, blocking, and one more task writes; signals are sent
\* to the readers.
Tasks == 1..(NProcs + 1)
Writer == NProcs + 1

ReadersInit ==
  /\ \E sz \in 2..MaxSize :
       /\ size = sz
       /\ buffer = [x \in 0..(sz - 1) |-> 0]
       /\ Loaded(sz)
  /\ readp = 0
  /\ writep = 0
  /\ lock = 0
  /\ inwq = <<>>
  /\ outwq = <<>>
  /\ dangling = {}
  /\ pc = [p \in Tasks |-> "idle"]
  /\ op = [p \in Tasks |-> "none"]
  /\ f_flags = [p \in Tasks |-> FALSE]
  /\ state = [p \in Tasks |-> "RUNNING"]
  /\ sigpending = [p \in Tasks |-> FALSE]
  /\ ret = [p \in Tasks |-> 0]
  /\ len = [p \in Tasks |-> 0]
  /\ ubuf = [p \in Tasks |-> <<>>]
  /\ fifo = <<>>
  /\ private_data = [p \in Tasks |-> "scullp0"]
  /\ script = <<>>
  /\ step = 1
  /\ acc = <<>>

ReaderCall(p) ==
  /\ Enter(p, "read", FALSE)
  /\ UNCHANGED <<driver, module, files>>

WriterCall ==
  /\ \E nb \in BOOLEAN : Enter(Writer, "write", nb)
  /\ UNCHANGED <<driver, module, files>>

ReadersNext ==
  \/ \E p \in Procs :
       \/ ReaderCall(p)
       \/ Read(p)
       \/ ResumeInterrupted(p)
       \/ Signal(p)
  \/ WriterCall
  \/ Write(Writer)
  \/ \E p \in Tasks : Resume(p)
  \/ \E p \in Tasks : Return(p)

SpecReaders == ReadersInit /\ [][ReadersNext]_vars

(* ------------------------------ claims --------------------------------- *)
\* the sizes as the specification defines them, from the cursors alone
readableSize == (writep - readp + size) % size
writableSize == size - 1 - readableSize

\* the bytes stored in the buffer, oldest first
Stored == [i \in 1..readableSize |-> buffer[(readp + i - 1) % size]]

InBody(p) == pc[p] \in {"locked", "relocked"}
\* the step in which task p runs its operation from the mutex taken to the
\* mutex released
Body(p) == InBody(p) /\ pc'[p] \notin {"locked", "relocked"}
\* ... and returns from it
BodyReturns(p) == InBody(p) /\ pc'[p] = "done"

\* C1: in every reachable state both cursors are within [0, capacity) and
\* readable_size() + writable_size() is capacity - 1.
C1_CursorInvariant ==
  /\ readp \in 0..(size - 1)
  /\ writep \in 0..(size - 1)
  /\ readable_size + writable_size = size - 1

\* C1 witness: the buffer is full with the stored bytes wrapping past the
\* end, after reads and writes of two tasks, one of which failed
C1_Witness ==
  /\ readp > writep
  /\ writep > 0
  /\ writable_size = 0
  /\ \E p \in Procs : pc[p] = "done" /\ ret[p] = -EAGAIN

\* C2: with any number of concurrent readers and writers, the buffer always
\* stores exactly the bytes committed by successful writes and not yet
\* delivered, in commit order, and every successful read delivers exactly
\* the oldest of them: the delivered bytes are a prefix of the committed
\* ones, with no byte lost, duplicated, reordered or overwritten.
C2_FifoOrder ==
  [][/\ Stored' = fifo'
     /\ \A p \in Procs :
          (BodyReturns(p) /\ op[p] = "read" /\ ret'[p] >= 0)
            => /\ ubuf'[p] = SubSeq(fifo, 1, ret'[p])
               /\ fifo' = SubSeq(fifo, ret'[p] + 1, Len(fifo))
     /\ \A p \in Procs :
          (BodyReturns(p) /\ op[p] = "write" /\ ret'[p] >= 0)
            => \E d \in [1..ret'[p] -> Bytes] : fifo' = fifo \o d]_vars

\* C2 witness: a read has delivered two different bytes while another task
\* is a writer suspended on the full buffer
C2_Witness ==
  \E p, q \in Procs :
    /\ pc[p] = "done" /\ op[p] = "read" /\ ret[p] = 2
    /\ ubuf[p][1] # ubuf[p][2]
    /\ pc[q] = "sched" /\ op[q] = "write"

\* ---- the sequential test programs ----
RECURSIVE TagData(_, _)
\* the bytes the entries of a script with the given tag write, in order
TagData(scr, tag) ==
  IF scr = <<>> THEN <<>>
  ELSE (IF Head(scr).tag = tag THEN Head(scr).data ELSE <<>>)
         \o TagData(Tail(scr), tag)

Payload == TagData(script, "payload")
\* the offset both positions are at when the payload is written
Offset == Len(TagData(script, "pre"))
PayloadLooped ==
  \A i \in DOMAIN script : script[i].tag = "payload" => script[i].all
At(tag) == Running /\ Entry.tag = tag
Returned == pc[1] = "done"
\* the first call of the final read has returned
FirstRead == At("check") /\ acc = <<>> /\ Returned

\* C3 as stated: after writes of T <= capacity - 1 bytes in total into the
\* empty buffer, at any offset, one read of T bytes returns all T bytes.
C3_Original ==
  (FirstRead /\ PayloadLooped)
    => ret[1] = Len(Payload) /\ ubuf[1] = Payload

\* C3 as amended: the one read returns the first min(T, capacity -
\* readCursor) of the written bytes, in order: all T of them exactly when
\* they do not wrap past the end of the buffer.
C3_SingleRead ==
  (FirstRead /\ PayloadLooped)
    => LET k == Min(Len(Payload), size - Offset)
       IN ret[1] = k /\ ubuf[1] = SubSeq(Payload, 1, k)

\* C3 witness: two writes whose bytes wrap, and the read came back short
C3_Witness ==
  /\ FirstRead /\ PayloadLooped
  /\ Cardinality({i \in DOMAIN script : script[i].tag = "payload"}) = 2
  /\ Offset + Len(Payload) > size
  /\ ret[1] > 0 /\ ret[1] < Len(Payload)

\* what scenario A and B say of the call that has just returned
AfterCall(tag, what) == (At(tag) /\ Returned) => what

\* C4 as stated (scenario A, capacity 8): write 7 returns 7; a non-blocking
\* write of 1 byte fails with WouldBlock; read 7 returns the 7 bytes and
\* leaves both cursors at 0; writing 7 bytes again returns 7.
C4_Original ==
  /\ AfterCall("first", ret[1] = 7)
  /\ AfterCall("full", ret[1] = -EAGAIN)
  /\ AfterCall("drain", ret[1] = 7 /\ ubuf[1] = script[1].data
                        /\ readp = 0 /\ writep = 0)
  /\ AfterCall("again", ret[1] = 7)

\* C4 as amended: the read leaves both cursors at 7 (empty), and the second
\* write of 7 bytes is short: it returns 1, the one byte up to the end of
\* the buffer, and wraps the write cursor to 0.
C4_ScenarioA ==
  /\ AfterCall("first", ret[1] = 7 /\ readp = 0 /\ writep = 7)
  /\ AfterCall("full", ret[1] = -EAGAIN /\ readp = 0 /\ writep = 7)
  /\ AfterCall("drain", ret[1] = 7 /\ ubuf[1] = script[1].data
                        /\ readp = 7 /\ writep = 7)
  /\ AfterCall("again", ret[1] = 1 /\ readp = 7 /\ writep = 0
                        /\ Stored = SubSeq(script[4].data, 1, 1))

\* C4 witness: the last write of the scenario has returned
C4_Witness == At("again") /\ Returned /\ size = 8 /\ ret[1] = 1

\* C5 (scenario B, capacity 8): with readCursor 6, writeCursor 2 and four
\* bytes stored at 6, 7, 0, 1, a read of 5 bytes returns the 2 bytes at 6-7
\* and sets readCursor to 0; the read for the remainder returns the 2 bytes
\* at 0-1 and leaves the buffer empty.
C5_ScenarioB ==
  /\ (At("first") /\ pc[1] = "idle")
       => /\ size = 8 /\ readp = 6 /\ writep = 2
          /\ Payload = <<buffer[6], buffer[7], buffer[0], buffer[1]>>
  /\ AfterCall("first", ret[1] = 2 /\ ubuf[1] = SubSeq(Payload, 1, 2)
                        /\ readp = 0 /\ writep = 2)
  /\ AfterCall("second", ret[1] = 2 /\ ubuf[1] = SubSeq(Payload, 3, 4)
                         /\ readp = 2 /\ writep = 2 /\ readable_size = 0)

\* C5 witness: the second read has returned its two bytes
C5_Witness ==
  At("second") /\ Returned /\ ret[1] = 2 /\ ubuf[1] = SubSeq(Payload, 3, 4)

\* the round trip of C6: one payload of 1..capacity-2 bytes, read back by
\* repeating short reads
RoundTrip ==
  /\ Cardinality({i \in DOMAIN script : script[i].tag = "payload"}) = 1
  /\ Len(Payload) \in 1..(size - 2)
  /\ script[Len(script)].all
\* the bytes the final read has collected, the call that just returned included
Collected == acc \o Moved(1)

\* C6 as stated: P is written by one write, and reading L bytes, repeating
\* short reads, gets P back: the reader is never left suspended short of L
\* bytes, and the L bytes it collects are P.
C6_Original ==
  (RoundTrip /\ ~PayloadLooped)
    => /\ pc[1] # "sched"
       /\ (At("check") /\ Returned /\ Len(Collected) = Len(Payload))
            => Collected = Payload

\* C6 as amended: P is written by repeating short writes until all L bytes
\* are committed; then every call transfers at least one byte, none
\* suspends, and the bytes collected are P.
C6_RoundTrip ==
  (RoundTrip /\ PayloadLooped)
    => /\ pc[1] # "sched"
       /\ Returned => ret[1] >= 1
       /\ (At("check") /\ Returned)
            => Collected = SubSeq(Payload, 1, Len(acc) + ret[1])
       /\ (At("check") /\ Returned /\ Len(Collected) = Len(Payload))
            => Collected = Payload

\* C6 witness: a wrapped payload of two different bytes, collected by a
\* second short read
C6_Witness ==
  /\ RoundTrip /\ PayloadLooped
  /\ At("check") /\ Returned
  /\ acc # <<>> /\ Len(Collected) = Len(Payload)
  /\ Offset + Len(Payload) > size
  /\ Payload[1] # Payload[2]

\* ---- blocking, cancellation, faults, poll ----
\* task p is suspended: in schedule(), mutex released, queued exclusively
Suspends(p, q) ==
  /\ pc'[p] = "sched"
  /\ lock' = 0
  /\ \E i \in DOMAIN q : q[i] = WaitEntry(p, TRUE)

Refused(p, e) == pc'[p] = "done" /\ ret'[p] = -e

\* C7 as stated: a write that finds writableSize() = 0 commits nothing; it
\* returns WouldBlock without suspending when non-blocking and otherwise
\* suspends; the same for a read that finds readableSize() = 0.
C7_Original ==
  [][\A p \in Procs :
       /\ (Body(p) /\ op[p] = "write" /\ writableSize = 0)
            => /\ UNCHANGED <<size, buffer, readp, writep, fifo>>
               /\ IF f_flags[p] THEN Refused(p, EAGAIN)
                  ELSE Suspends(p, outwq')
       /\ (Body(p) /\ op[p] = "read" /\ readableSize = 0)
            => /\ UNCHANGED <<size, buffer, readp, writep, fifo, ubuf>>
               /\ IF f_flags[p] THEN Refused(p, EAGAIN)
                  ELSE Suspends(p, inwq')]_vars

\* C7 as amended: ... and otherwise suspends, unless a cancellation signal
\* is already pending, in which case it returns Interrupted without
\* suspending.
C7_Blocking ==
  [][\A p \in Procs :
       /\ (Body(p) /\ op[p] = "write" /\ writableSize = 0)
            => /\ UNCHANGED <<size, buffer, readp, writep, fifo>>
               /\ IF f_flags[p] THEN Refused(p, EAGAIN)
                  ELSE IF sigpending[p] THEN Refused(p, EINTR)
                  ELSE Suspends(p, outwq')
       /\ (Body(p) /\ op[p] = "read" /\ readableSize = 0)
            => /\ UNCHANGED <<size, buffer, readp, writep, fifo, ubuf>>
               /\ IF f_flags[p] THEN Refused(p, EAGAIN)
                  ELSE IF sigpending[p] THEN Refused(p, EINTR)
                  ELSE Suspends(p, inwq')]_vars

\* C7 witness: a writer is suspended on the full buffer and a non-blocking
\* writer has been refused
C7_Witness ==
  \E p, q \in Procs :
    /\ pc[p] = "sched" /\ op[p] = "write" /\ state[p] = "INTERRUPTIBLE"
    /\ writableSize = 0
    /\ pc[q] = "done" /\ op[q] = "write" /\ ret[q] = -EAGAIN

\* no write has changed the channel since it was initialised
Untouched ==
  /\ readp = 0 /\ writep = 0 /\ fifo = <<>>
  /\ \A i \in DOMAIN buffer : buffer[i] = 0

\* C8: a read that returns Interrupted before any write has occurred leaves
\* the channel as it was before the read was issued: cursors and storage
\* unchanged, the lock not held by the reader, and no entry of the reader in
\* either wait set, also when other callers contend for the lock.
C8_Cancellation ==
  \A p \in Procs :
    (pc[p] = "done" /\ op[p] = "read" /\ ret[p] \in {-EINTR, -ERESTARTSYS}
       /\ Untouched)
      => /\ lock # p
         /\ ~Queued(inwq, p)
         /\ ~Queued(outwq, p)

\* C9: when the transfer step of a read or write fails (BadAddress), the
\* call returns with both cursors unchanged, the readable region and its
\* bytes unchanged, no waiter woken, and the lock released.
C9_FaultAtomic ==
  [][\A p \in Procs :
       (BodyReturns(p) /\ ret'[p] = -EFAULT)
         => /\ UNCHANGED <<size, readp, writep, fifo>>
            /\ Stored' = Stored
            /\ \A q \in Procs \ {p} : state'[q] = state[q]
            /\ inwq' = finish_wait(inwq, p)
            /\ outwq' = finish_wait(outwq, p)
            /\ lock = p /\ lock' = 0]_vars

\* C9 witness: a write has failed with -EFAULT after part of its bytes
\* reached the buffer, while a reader sleeps in the data wait set
C9_Witness ==
  \E p, q \in Procs :
    /\ pc[p] = "done" /\ op[p] = "write" /\ ret[p] = -EFAULT
    /\ \E i \in DOMAIN buffer : buffer[i] # 0
    /\ fifo = <<>>
    /\ pc[q] = "sched" /\ op[q] = "read" /\ state[q] = "INTERRUPTIBLE"
    /\ Queued(inwq, q)

\* C10: every poll() that held the lock reports readReady = (readableSize()
\* > 0) and writeReady = (writableSize() > 0) for the state it held the lock
\* in, and changes neither cursor nor storage.
C10_PollSnapshot ==
  [][\A p \in Procs :
       (BodyReturns(p) /\ op[p] = "poll")
         => /\ HasBit(ret'[p], POLLIN) = (readableSize > 0)
            /\ HasBit(ret'[p], POLLRDNORM) = (readableSize > 0)
            /\ HasBit(ret'[p], POLLOUT) = (writableSize > 0)
            /\ HasBit(ret'[p], POLLWRNORM) = (writableSize > 0)
            /\ UNCHANGED <<size, buffer, readp, writep, fifo>>]_vars

\* C10 witness: a poll() of the full buffer has reported it readable and not
\* writable
C10_Witness ==
  \E p \in Procs :
    /\ pc[p] = "done" /\ op[p] = "poll"
    /\ HasBit(ret[p], POLLIN) /\ ~HasBit(ret[p], POLLOUT)
    /\ writableSize = 0

\* ---- module load and unload, open and close ----
\* C11: if scullp_init() fails at slot k (0 < k < N), whichever step of slot
\* k failed, the allocation of its buffer or the registration of its device,
\* then afterwards no slot is Active: no slot still holds allocated storage.
C11_Rollback ==
  (initpc = "failed" /\ loop_i > 0 /\ loop_i < NR_SCULLP_DEV)
    => \A k \in Slots : ~Allocated(k)

\* scullp_terminate() has run on slot 0
Terminated == initpc \in {"unregister", "failed", "scullp_exit", "gone"} /\ loop_j > 0
\* the state of the channel of slot 0
Life ==
  IF Allocated(0) THEN "Active"
  ELSE IF Terminated THEN "Terminated"
  ELSE "Uninitialized"
\* an error that is none of WouldBlock, Interrupted and BadAddress
Unavailable(r) == r < 0 /\ r \notin {-EAGAIN, -EINTR, -ERESTARTSYS, -EFAULT}

\* C12: a channel moves only Uninitialized -> Active -> Terminated, and a
\* read, write or poll on a channel that is not Active does nothing but
\* return Unavailable: it evaluates no size function and touches neither
\* cursors nor storage.
C12_Lifecycle ==
  [][/\ Life' # Life
          => <<Life, Life'>> \in {<<"Uninitialized", "Active">>,
                                  <<"Active", "Terminated">>}
     /\ \A p \in Procs :
          (Life # "Active" /\ pc[p] # "idle" /\ pc'[p] # pc[p] /\ pc'[p] # "idle")
            => /\ pc'[p] = "done"
               /\ Unavailable(ret'[p])
               /\ UNCHANGED <<size, buffer, readp, writep>>]_vars

\* a read or write of length zero has returned a byte count
ZeroLength(p) ==
  BodyReturns(p) /\ op[p] \in {"read", "write"} /\ ret'[p] >= 0 /\ len'[p] = 0

\* C13 as stated: a read or write request of length zero fails with
\* InvalidArgument: it never returns success.
C13_Original == [][\A p \in Procs : ~ZeroLength(p)]_vars

\* C13 as amended: a request of length zero is treated like any other.  On
\* a channel without data (read) or space (write) it returns WouldBlock or
\* Interrupted or suspends, as the wait loop decides; otherwise it returns
\* success with 0 bytes, leaves cursors and storage unchanged and wakes a
\* waiter of the opposite wait set as every successful call does.
C13_ZeroLength ==
  [][\A p \in Procs :
       /\ (Body(p) /\ op[p] = "read" /\ readableSize = 0)
            => \/ Refused(p, EAGAIN) \/ Refused(p, EINTR) \/ Suspends(p, inwq')
       /\ (Body(p) /\ op[p] = "write" /\ writableSize = 0)
            => \/ Refused(p, EAGAIN) \/ Refused(p, EINTR) \/ Suspends(p, outwq')
       /\ ZeroLength(p)
            => /\ ret'[p] = 0
               /\ UNCHANGED <<size, buffer, readp, writep, fifo>>
               /\ IF op[p] = "read"
                  THEN /\ readableSize > 0
                       /\ ubuf'[p] = <<>>
                       /\ inwq' = finish_wait(inwq, p)
                       /\ [q |-> outwq', st |-> state']
                            \in wake_up_interruptible(outwq, state, "outwq" \in dangling)
                  ELSE /\ writableSize > 0
                       /\ outwq' = finish_wait(outwq, p)
                       /\ [q |-> inwq', st |-> state']
                            \in wake_up_interruptible(inwq, state, "inwq" \in dangling)]_vars

\* C13 witness: a read of length zero has returned 0 from the full buffer
\* and has woken the writer that sleeps for space
C13_Witness ==
  \E p, q \in Procs :
    /\ pc[p] = "done" /\ op[p] = "read" /\ ret[p] = 0 /\ len[p] = 0
    /\ writableSize = 0
    /\ pc[q] = "sched" /\ op[q] = "write" /\ state[q] = "RUNNING"
    /\ ~sigpending[q]
    /\ ~Queued(outwq, q)

\* C14: open and close leave both cursors, the storage and both wait sets as
\* they are, so the bytes committed and not yet read stay stored, in order,
\* whichever files are opened and closed, and every read delivers the oldest
\* of them.
C14_Persistence ==
  [][/\ \A p \in Procs :
          private_data'[p] # private_data[p]
            => UNCHANGED <<size, buffer, readp, writep, inwq, outwq, fifo>>
     /\ Stored' = fifo'
     /\ \A p \in Procs :
          (BodyReturns(p) /\ op[p] = "read" /\ ret'[p] >= 0)
            => ubuf'[p] = SubSeq(fifo, 1, ret'[p])]_vars

\* C14 witness: a read has delivered two different bytes through one file
\* while the file of the other task is closed
C14_Witness ==
  \E p, q \in Procs :
    /\ private_data[q] = "NULL"
    /\ private_data[p] # "NULL"
    /\ pc[p] = "done" /\ op[p] = "read" /\ ret[p] = 2
    /\ ubuf[p][1] # ubuf[p][2]
    /\ fifo = <<>>

\* ---- locking, transfer length, wait entries ----
\* the tasks that hold the mutex
Holders == {p \in Procs : InBody(p)}
LockInv ==
  /\ Cardinality(Holders) <= 1
  /\ \A p \in Holders : lock = p
  /\ \A p \in Procs : pc[p] = "sched" => lock # p

C16_TransferLength ==
  [][\A p \in Procs :
       (BodyReturns(p) /\ ret'[p] >= 0 /\ op[p] \in {"read", "write"})
         => LET req == len'[p]
                avail == IF op[p] = "read" THEN readableSize ELSE writableSize
                capped == IF op[p] = "read" THEN readp > writep ELSE writep >= readp
                cursor == IF op[p] = "read" THEN readp ELSE writep
                n == IF capped THEN Min(Min(req, avail), size - cursor)
                     ELSE Min(req, avail)
            IN /\ ret'[p] = n
               /\ req >= 1 => ret'[p] >= 1
               /\ ret'[p] <= avail]_vars

\* C16 witness: a read that asked for two bytes has returned the one byte up
\* to the end of the buffer, with more data stored
C16_Witness ==
  \E p \in Procs :
    /\ pc[p] = "done" /\ op[p] = "read" /\ ret[p] = 1 /\ len[p] = 2
    /\ readp = 0
    /\ readableSize > 0

\* C19: whenever a read or write call has returned, with any outcome, the
\* wait entry of the caller is in neither wait set.
C19_NoWaitEntry ==
  \A p \in Procs :
    (pc[p] = "done" /\ op[p] \in {"read", "write"})
      => ~Queued(inwq, p) /\ ~Queued(outwq, p)

\* C20: whenever a read, write or poll call has returned, the caller does
\* not hold the lock, and no call releases a lock it does not hold.
C20_LockReleased ==
  [][\A p \in Procs :
       /\ pc'[p] = "done" => lock' # p
       /\ (pc'[p] # pc[p] /\ lock' # lock /\ lock # 0) => lock = p]_vars

\* C20 witness: a read has returned -ERESTARTSYS from the failed lock
\* acquisition after its sleep while the other task holds the lock
C20_Witness ==
  \E p, q \in Procs :
    /\ pc[p] = "done" /\ op[p] = "read" /\ ret[p] = -ERESTARTSYS
    /\ Queued(inwq, p)
    /\ lock = q /\ q # p

\* ---- wakeups ----
\* C17: with one blocking reader and one blocking writer, under fair
\* scheduling and without signals, a reader suspended on the empty channel
\* returns with at least 1 byte once data is committed, a writer suspended
\* on the full channel returns once data is consumed, and the two are never
\* both suspended forever.
C17_NoLostWakeup ==
  /\ (pc[1] = "sched" /\ readable_size > 0) ~> (pc[1] = "done" /\ ret[1] >= 1)
  /\ (pc[2] = "sched" /\ writable_size > 0) ~> (pc[2] = "done" /\ ret[2] >= 1)
  /\ []<>~(pc[1] = "sched" /\ pc[2] = "sched")

\* C17 witness: the reader that was suspended on the empty channel is woken
\* by a write that has filled the buffer, and the writer is now suspended
C17_Witness ==
  /\ pc[1] = "sched" /\ op[1] = "read" /\ state[1] = "RUNNING"
  /\ readable_size > 0
  /\ pc[2] = "sched" /\ op[2] = "write" /\ state[2] = "INTERRUPTIBLE"

\* C18: with two or more blocking readers suspended, no reader stays
\* suspended forever while data is readable.  A reader that sleeps in the
\* data wait set with data readable, while no other call is in progress
\* that could wake it, stays suspended for as long as no new call is made;
\* the claim excludes such a state (here with every wait entry in the
\* queues that of a live call, so that each wake-up is well defined).
C18_NoStrandedReader ==
  \A p \in Procs :
    ~(/\ pc[p] = "sched" /\ op[p] = "read" /\ state[p] = "INTERRUPTIBLE"
      /\ readable_size > 0
      /\ dangling = {}
      /\ \A q \in Tasks \ {p} : pc[q] = "idle")

TypeOK ==
  /\ size \in 0..8
  /\ buffer \in [0..(size - 1) -> Bytes]
  /\ lock \in {0} \cup Procs
  /\ pc \in [Procs -> {"idle", "locked", "sched", "relocked", "done"}]
  /\ state \in [Procs -> {"RUNNING", "INTERRUPTIBLE"}]
====
